---- MODULE Spec2Model ----
(***************************************************************************)
(* A model of django_filtering: the Lookup and Filter definitions of       *)
(* filters.py, the field-lookup helpers of utils.py, and the operations    *)
(* on them (construction, binding, transmutation, description).            *)
(*                                                                         *)
(* Python values are modelled as tagged records (field t is the Python     *)
(* type), so that None, strings, booleans, lists, tuples, dicts, Q         *)
(* objects and raised exceptions can share a variable.  A function that    *)
(* raises yields a Raise(...) value in place of its return value.          *)
(***************************************************************************)
EXTENDS Integers, Sequences, FiniteSets, TLC

VARIABLES
    lookups,    \* the Lookup objects constructed so far, in declaration order
    filter,     \* the Filter / StickyFilter built from them, or None
    result,     \* the last call: its name, its arguments and what it returned or raised
    BASE_DEFINITIONS    \* the module-level dict of schema.py that every schema starts from

vars == <<lookups, filter, result, BASE_DEFINITIONS>>

----------------------------------------------------------------------------
(* Python values *)

None == [t |-> "None"]
Str(s) == [t |-> "str", s |-> s]
Bool(b) == [t |-> "bool", b |-> b]
PyInt(n) == [t |-> "int", n |-> n]
List(l) == [t |-> "list", l |-> l]
Tuple(l) == [t |-> "tuple", l |-> l]
Dict(d) == [t |-> "dict", d |-> d]
Function(f) == [t |-> "function", f |-> f]
Raise(exc, msg) == [t |-> "raise", exc |-> exc, msg |-> msg]

\* django.db.models.Q built from one positional (name, value) argument
Q(arg) == [t |-> "Q", children |-> <<arg>>]

IsRaise(v) == v.t = "raise"

\* bool(v)
Truthy(v) ==
    CASE v.t = "None" -> FALSE
      [] v.t = "str" -> v.s # ""
      [] v.t = "bool" -> v.b
      [] v.t = "int" -> v.n # 0
      [] v.t \in {"list", "tuple"} -> Len(v.l) > 0
      [] v.t = "dict" -> DOMAIN v.d # {}
      [] OTHER -> TRUE

\* a == b; a bool compares as the integer it is
AsNumber(v) == IF v.t = "bool" THEN (IF v.b THEN 1 ELSE 0) ELSE v.n

PyEq(a, b) ==
    IF a.t \in {"bool", "int"} /\ b.t \in {"bool", "int"}
    THEN AsNumber(a) = AsNumber(b)
    ELSE a = b

\* hash(v) succeeds: lists and dicts are not hashable
Hashable(v) == v.t \notin {"list", "dict"}

\* f"{v}" for the values a field name takes
Format(v) == IF v.t = "None" THEN "None" ELSE v.s

\* an empty keyword-argument mapping, and one holding lookup=l
NoKwargs == [k \in {} |-> None]
Kwargs(l) == [k \in {"lookup"} |-> l]

\* kwargs.get(key, default)
KwGet(kwargs, key, default) == IF key \in DOMAIN kwargs THEN kwargs[key] ELSE default

\* kwargs.setdefault(key, default): the mapping afterwards
KwSetDefault(kwargs, key, default) ==
    IF key \in DOMAIN kwargs THEN kwargs ELSE [k \in DOMAIN kwargs \cup {key} |->
        IF k = key THEN default ELSE kwargs[k]]

----------------------------------------------------------------------------
(* utils.py *)

RECURSIVE Join(_, _)
\* sep.join(parts), parts a sequence of strings
Join(sep, parts) ==
    IF Len(parts) = 0 THEN ""
    ELSE IF Len(parts) = 1 THEN parts[1]
    ELSE parts[1] \o sep \o Join(sep, Tail(parts))

\* the strings of a list or tuple of str values
Strings(v) == [i \in 1..Len(v.l) |-> v.l[i].s]

construct_field_lookup_name(field_name, lookup) ==
    LET is_lookup_seq == lookup.t \in {"list", "tuple"}
        lookup_expr ==
            IF lookup.t # "None"
            THEN Join("__", IF is_lookup_seq THEN <<"">> \o Strings(lookup)
                                             ELSE <<"", lookup.s>>)
            ELSE ""
    IN Format(field_name) \o lookup_expr

construct_field_lookup_arg(field_name, value, lookup) ==
    Tuple(<<Str(construct_field_lookup_name(field_name, lookup)), value>>)

RECURSIVE SplitFrom(_, _, _, _)
\* the pieces of s from position i on, cur being the piece under way
SplitFrom(s, sep, i, cur) ==
    IF i > Len(s) THEN <<cur>>
    ELSE IF i + Len(sep) - 1 <= Len(s) /\ SubSeq(s, i, i + Len(sep) - 1) = sep
         THEN <<cur>> \o SplitFrom(s, sep, i + Len(sep), "")
         ELSE SplitFrom(s, sep, i + 1, cur \o SubSeq(s, i, i))

\* s.split(sep)
Split(s, sep) == SplitFrom(s, sep, 1, "")

\* deconstruct_field_lookup_arg leaving a single lookup in its list
deconstruct_field_lookup_arg_keep_list(field_lookup, value, lookup) ==
    LET parts == Split(field_lookup.s, "__")
        name == parts[1]
        rest == Tail(parts)
        lookups_ ==
            IF Len(rest) = 0
            THEN (IF Truthy(lookup) THEN lookup ELSE Str("exact"))
            ELSE List([i \in 1..Len(rest) |-> Str(rest[i])])
        opts == [k \in {Str("value"), Str("lookup")} |->
                    IF k = Str("value") THEN value ELSE lookups_]
    IN List(<<Str(name), Dict(opts)>>)

deconstruct_field_lookup_arg(field_lookup, value, lookup) ==
    LET parts == Split(field_lookup.s, "__")
        name == parts[1]
        rest == Tail(parts)
        lookups_ ==
            IF Len(rest) = 0
            THEN (IF Truthy(lookup) THEN lookup ELSE Str("exact"))
            ELSE IF Len(rest) = 1 THEN Str(rest[1])
            ELSE List([i \in 1..Len(rest) |-> Str(rest[i])])
        opts == IF Truthy(lookups_)
                THEN [k \in {Str("value"), Str("lookup")} |->
                        IF k = Str("value") THEN value ELSE lookups_]
                ELSE [k \in {Str("value")} |-> value]
    IN List(<<Str(name), Dict(opts)>>)

----------------------------------------------------------------------------
(* filters.py: lookups *)

\* BaseLookup.__init__, for the class cls whose class attribute type is type_
BaseLookup_init(cls, type_, name, label) ==
    IF label.t = "None"
    THEN Raise("ValueError", "At this time, the lookup label must be provided.")
    ELSE [t |-> cls, type |-> type_, name |-> name, label |-> label]

InputLookup_init(name, label) == BaseLookup_init("InputLookup", "input", name, label)

ChoiceLookup_init(name, label, choices) ==
    LET base == BaseLookup_init("ChoiceLookup", "choice", name, label)
    IN IF IsRaise(base) THEN base
       ELSE [t |-> base.t, type |-> base.type, name |-> base.name,
             label |-> base.label, _choices |-> choices]

\* BaseLookup.get_options_schema_definition
BaseLookup_get_options_schema_definition(self, field) ==
    [k \in {Str("type"), Str("label")} |->
        IF k = Str("type") THEN Str(self.type) ELSE self.label]

\* the blank entry Django's Field.get_choices puts first when include_blank is set
BLANK_CHOICE == Tuple(<<Str(""), Str("---------")>>)

\* field.get_choices(include_blank): the field's own enumeration; a field
\* that enumerates nothing has nothing to list and the call raises
get_choices(field, include_blank) ==
    IF field.choices.t = "None"
    THEN Raise("AttributeError", "'NoneType' object has no attribute 'model'")
    ELSE List((IF include_blank THEN <<BLANK_CHOICE>> ELSE <<>>) \o field.choices.l)

\* the choices a lookup's resolver function returns, and the arguments it saw
STATIC_CHOICES ==
    List(<<Tuple(<<Str("any"), Str("Any")>>), Tuple(<<Str("manual"), Str("Manual")>>)>>)

dynamic_choices(lookup, field) ==
    List(<<Tuple(<<Str("any"), Str("Any")>>),
           Tuple(<<Str(lookup.t), Str(Format(field.name))>>)>>)

\* ChoiceLookup.get_options_schema_definition with the field's choices always
\* taken first (the resolution order reversed)
ChoiceLookup_definition_field_first(self, field) ==
    LET definition == BaseLookup_get_options_schema_definition(self, field)
        choices ==
            IF field.choices.t # "None" THEN get_choices(field, FALSE)
            ELSE IF self._choices.t = "function" THEN dynamic_choices(self, field)
            ELSE self._choices
    IN IF IsRaise(choices) THEN choices
       ELSE Dict([k \in DOMAIN definition \cup {Str("choices")} |->
                    IF k = Str("choices") THEN choices ELSE definition[k]])

\* ChoiceLookup.get_options_schema_definition
ChoiceLookup_get_options_schema_definition(self, field) ==
    LET definition == BaseLookup_get_options_schema_definition(self, field)
        choices ==
            IF self._choices.t = "None" THEN get_choices(field, FALSE)
            ELSE IF self._choices.t = "function" THEN dynamic_choices(self, field)
            ELSE self._choices
    IN IF IsRaise(choices) THEN choices
       ELSE Dict([k \in DOMAIN definition \cup {Str("choices")} |->
                    IF k = Str("choices") THEN choices ELSE definition[k]])

\* lookup.get_options_schema_definition(field), by the lookup's class
get_options_schema_definition(self, field) ==
    IF self.t = "ChoiceLookup"
    THEN ChoiceLookup_get_options_schema_definition(self, field)
    ELSE Dict(BaseLookup_get_options_schema_definition(self, field))

----------------------------------------------------------------------------
(* filters.py: filters *)

\* tests/market_app/filters.py
query_in_stock(value, kwargs) ==
    IF value = Bool(TRUE)
    THEN Q(Tuple(<<Str("quantity__gt"), PyInt(0)>>))
    ELSE Q(Tuple(<<Str("quantity__lt"), PyInt(0)>>))

\* Filter.__init__ without the fallback to the first lookup's name
Filter_init_keep_default_lookup(lookups_, default_lookup, label, transmuter) ==
    IF Len(lookups_) = 0
    THEN Raise("ValueError",
               "Must specify at least one lookup for the filter (e.g. InputLookup).")
    ELSE IF label.t = "None"
    THEN Raise("ValueError", "At this time, the filter label must be provided.")
    ELSE [t |-> "Filter", name |-> None, lookups |-> lookups_,
          default_lookup |-> default_lookup,
          label |-> label,
          _transmuter |-> IF Truthy(transmuter) THEN transmuter
                          ELSE Function("_default_transmuter")]

\* Filter.__init__ requiring the default_lookup argument
Filter_init_require_default_lookup(lookups_, default_lookup, label, transmuter) ==
    IF Len(lookups_) = 0
    THEN Raise("ValueError",
               "Must specify at least one lookup for the filter (e.g. InputLookup).")
    ELSE IF ~Truthy(default_lookup)
    THEN Raise("ValueError", "At this time, the default_lookup must be provided.")
    ELSE IF label.t = "None"
    THEN Raise("ValueError", "At this time, the filter label must be provided.")
    ELSE [t |-> "Filter", name |-> None, lookups |-> lookups_,
          default_lookup |-> default_lookup,
          label |-> label,
          _transmuter |-> IF Truthy(transmuter) THEN transmuter
                          ELSE Function("_default_transmuter")]

\* Filter.__init__ without the check on the number of lookups and on the label
Filter_init_unchecked(lookups_, default_lookup, label, transmuter) ==
    [t |-> "Filter", name |-> None, lookups |-> lookups_,
     default_lookup |-> IF Truthy(default_lookup) \/ Len(lookups_) = 0
                        THEN default_lookup ELSE lookups_[1].name,
     label |-> label,
     _transmuter |-> IF Truthy(transmuter) THEN transmuter
                     ELSE Function("_default_transmuter")]

\* Filter.__init__; name is the class attribute, None until the filter is bound
Filter_init(lookups_, default_lookup, label, transmuter) ==
    IF Len(lookups_) = 0
    THEN Raise("ValueError",
               "Must specify at least one lookup for the filter (e.g. InputLookup).")
    ELSE IF label.t = "None"
    THEN Raise("ValueError", "At this time, the filter label must be provided.")
    ELSE [t |-> "Filter", name |-> None, lookups |-> lookups_,
          default_lookup |-> IF Truthy(default_lookup) THEN default_lookup
                             ELSE lookups_[1].name,
          label |-> label,
          _transmuter |-> IF Truthy(transmuter) THEN transmuter
                          ELSE Function("_default_transmuter")]

\* StickyFilter.__init__
StickyFilter_init(lookups_, default_lookup, label, transmuter, default_value, unstick_value) ==
    LET base == Filter_init(lookups_, default_lookup, label, transmuter)
    IN IF IsRaise(base) THEN base
       ELSE IF default_value.t = "None"
       THEN Raise("ValueError",
                  "A StickyFilter requires a default_value keyword argument value to correctly function. Please set the value.")
       ELSE [t |-> "StickyFilter", name |-> base.name, lookups |-> base.lookups,
             default_lookup |-> base.default_lookup, label |-> base.label,
             _transmuter |-> base._transmuter,
             default_value |-> default_value, unstick_value |-> unstick_value]

\* Filter.clean
clean(self, value) == value

\* Filter._default_transmuter
Filter_default_transmuter(self, value, kwargs) ==
    LET lookup == KwSetDefault(kwargs, "lookup", self.default_lookup)["lookup"]
    IN Q(construct_field_lookup_arg(self.name, value, lookup))

\* self._transmuter(value, queryset, **kwargs)
call_transmuter(self, value, kwargs) ==
    CASE self._transmuter = Function("query_in_stock") -> query_in_stock(value, kwargs)
      [] OTHER -> Filter_default_transmuter(self, value, kwargs)

\* Filter.transmute
Filter_transmute(self, value, kwargs) ==
    LET value_ == clean(self, value)
        kwargs_ == KwSetDefault(kwargs, "lookup", self.default_lookup)
    IN call_transmuter(self, value_, kwargs_)

\* the sentry value: an object equal to nothing but itself
UNSTICK_VALUE == [t |-> "object", id |-> "UNSTICK_VALUE"]

\* StickyFilter.to_cleaned_value comparing with the default value instead
to_cleaned_value_default(self, value) ==
    LET value_ == clean(self, value)
    IN IF PyEq(value_, self.default_value) THEN UNSTICK_VALUE ELSE value_

\* StickyFilter.to_cleaned_value
to_cleaned_value(self, value) ==
    LET value_ == clean(self, value)
    IN IF PyEq(value_, self.unstick_value) THEN UNSTICK_VALUE ELSE value_

\* StickyFilter.transmute with no fallback to the default lookup
StickyFilter_transmute_no_default(self, value, kwargs) ==
    LET lookup == KwGet(kwargs, "lookup", None)
        value_ == to_cleaned_value(self, value)
    IN IF value_ = UNSTICK_VALUE THEN None
       ELSE Q(construct_field_lookup_arg(self.name, value_, lookup))

\* StickyFilter.transmute
StickyFilter_transmute(self, value, kwargs) ==
    LET lookup == KwGet(kwargs, "lookup", self.default_lookup)
        value_ == to_cleaned_value(self, value)
    IN IF value_ = UNSTICK_VALUE THEN None
       ELSE Q(construct_field_lookup_arg(self.name, value_, lookup))

\* self.transmute(...), by the filter's class
transmute(self, value, kwargs) ==
    IF self.t = "StickyFilter" THEN StickyFilter_transmute(self, value, kwargs)
    ELSE Filter_transmute(self, value, kwargs)

\* StickyFilter.get_sticky_Q
get_sticky_Q(self) == transmute(self, self.default_value, NoKwargs)

\* utils.deconstruct_query: the query data of a predicate of one criterion
deconstruct_query(query) ==
    IF query.t # "Q"
    THEN Raise("AttributeError", "'NoneType' object has no attribute 'children'")
    ELSE deconstruct_field_lookup_arg(query.children[1].l[1], query.children[1].l[2], None)

RECURSIVE collect_lookups(_, _, _, _)
\* the loop of Filter.get_options_schema_info from the i-th lookup on, acc being
\* the dict built so far: the dict in the end, or what the loop raised
collect_lookups(lus, field, i, acc) ==
    IF i > Len(lus) THEN Dict(acc)
    ELSE LET definition == get_options_schema_definition(lus[i], field)
         IN IF IsRaise(definition) THEN definition
            ELSE IF ~Hashable(lus[i].name)
            THEN Raise("TypeError", "unhashable type: 'list'")
            ELSE collect_lookups(lus, field, i + 1,
                    [k \in DOMAIN acc \cup {lus[i].name} |->
                        IF k = lus[i].name THEN definition ELSE acc[k]])

\* hasattr(field, "help_text") and field.help_text
has_help_text(field) == "help_text" \in DOMAIN field /\ Truthy(field.help_text)

\* Filter.get_options_schema_info
Filter_get_options_schema_info(self, field) ==
    LET lookups_ == collect_lookups(self.lookups, field, 1, [k \in {} |-> None])
        keys == {Str("default_lookup"), Str("lookups"), Str("label")}
                \cup (IF has_help_text(field) THEN {Str("help_text")} ELSE {})
    IN IF IsRaise(lookups_) THEN lookups_
       ELSE Dict([k \in keys |->
                CASE k = Str("default_lookup") -> self.default_lookup
                  [] k = Str("lookups") -> lookups_
                  [] k = Str("label") -> self.label
                  [] OTHER -> field.help_text])

\* StickyFilter.get_options_schema_info
StickyFilter_get_options_schema_info(self, field) ==
    LET info == Filter_get_options_schema_info(self, field)
        sticky_default == deconstruct_query(get_sticky_Q(self))
    IN IF IsRaise(info) THEN info
       ELSE IF IsRaise(sticky_default) THEN sticky_default
       ELSE Dict([k \in DOMAIN info.d \cup {Str("is_sticky"), Str("sticky_default")} |->
                CASE k = Str("is_sticky") -> Bool(TRUE)
                  [] k = Str("sticky_default") -> sticky_default
                  [] OTHER -> info.d[k]])

\* self.get_options_schema_info(field, queryset), by the filter's class
get_options_schema_info(self, field) ==
    IF self.t = "StickyFilter" THEN StickyFilter_get_options_schema_info(self, field)
    ELSE Filter_get_options_schema_info(self, field)

----------------------------------------------------------------------------
(* schema.py *)

PySet(elems) == [t |-> "set", elems |-> elems]

\* a dict literal {key: value, ...}, given as its (key, value) pairs in order
DictOf(pairs) ==
    Dict([k \in {Str(pairs[i][1]) : i \in DOMAIN pairs} |->
            pairs[CHOOSE i \in DOMAIN pairs :
                    /\ Str(pairs[i][1]) = k
                    /\ \A j \in DOMAIN pairs : Str(pairs[j][1]) = k => j <= i][2]])

\* d[key] = value: the dict afterwards
DictSet(d, key, value) ==
    Dict([k \in DOMAIN d.d \cup {key} |-> IF k = key THEN value ELSE d.d[k]])

Ref(name) == DictOf(<< <<"$ref", Str("#/$defs/" \o name)>> >>)

\* the value BASE_DEFINITIONS is bound to when schema.py is imported
BASE_DEFINITIONS_literal ==
    DictOf(<<
        <<"and-or-op", DictOf(<<
            <<"type", Str("array")>>,
            <<"prefixItems", List(<<
                DictOf(<< <<"enum", List(<<Str("and"), Str("or")>>)>> >>),
                DictOf(<<
                    <<"type", Str("array")>>,
                    <<"items", DictOf(<<
                        <<"anyOf", List(<<Ref("filters"), Ref("and-or-op"),
                                          Ref("not-op")>>)>> >>)>> >>) >>)>> >>)>>,
        <<"not-op", DictOf(<<
            <<"type", Str("array")>>,
            <<"prefixItems", List(<<
                DictOf(<< <<"const", Str("not")>> >>),
                DictOf(<<
                    <<"oneOf", List(<<Ref("filters"), Ref("and-or-op"),
                                      Ref("not-op")>>)>> >>) >>)>> >>)>> >>)

LOWERCASE == "abcdefghijklmnopqrstuvwxyz"
UPPERCASE == "ABCDEFGHIJKLMNOPQRSTUVWXYZ"

\* where the character c stands in the string letters, 0 when it does not
IndexIn(c, letters) ==
    IF \E i \in 1..Len(letters) : SubSeq(letters, i, i) = c
    THEN CHOOSE i \in 1..Len(letters) : SubSeq(letters, i, i) = c
    ELSE 0

IsCased(c) == IndexIn(c, LOWERCASE) > 0 \/ IndexIn(c, UPPERCASE) > 0
ToUpper(c) == IF IndexIn(c, LOWERCASE) > 0
              THEN SubSeq(UPPERCASE, IndexIn(c, LOWERCASE), IndexIn(c, LOWERCASE)) ELSE c
ToLower(c) == IF IndexIn(c, UPPERCASE) > 0
              THEN SubSeq(LOWERCASE, IndexIn(c, UPPERCASE), IndexIn(c, UPPERCASE)) ELSE c

RECURSIVE TitleFrom(_, _, _)
TitleFrom(s, i, after_cased) ==
    IF i > Len(s) THEN ""
    ELSE LET c == SubSeq(s, i, i)
         IN (IF after_cased THEN ToLower(c) ELSE ToUpper(c))
                \o TitleFrom(s, i + 1, IsCased(c))

\* s.title(): every word starts with a capital, the rest is lower case
Title(s) == TitleFrom(s, 1, FALSE)

\* FilteringOptionsSchema._get_field: model._meta.get_field(field_name)
get_field(filterset, field_name) ==
    IF field_name \in DOMAIN filterset.model.fields
    THEN filterset.model.fields[field_name]
    ELSE Raise("FieldDoesNotExist", field_name)

\* the info of one field, with a description whether or not there is help text
option_info_always_description(field, lookups_) ==
    DictOf(<< <<"type", Str("field")>>, <<"field_type", Str("string")>>,
              <<"lookups", lookups_>>, <<"label", Str(Title(field.verbose_name.s))>>,
              <<"description", field.help_text>> >>)

\* the info of one field in FilteringOptionsSchema.schema
option_info(field, lookups_) ==
    LET info == DictOf(<< <<"type", Str("field")>>, <<"field_type", Str("string")>>,
                          <<"lookups", lookups_>>,
                          <<"label", Str(Title(field.verbose_name.s))>> >>)
    IN IF Truthy(field.help_text)
       THEN DictSet(info, Str("description"), field.help_text)
       ELSE info

RECURSIVE option_filters(_, _, _)
\* the loop of FilteringOptionsSchema.schema from the i-th valid filter on
option_filters(filterset, i, filters) ==
    IF i > Len(filterset.valid_filters) THEN filters
    ELSE LET filter_name == filterset.valid_filters[i][1]
             lookups_ == filterset.valid_filters[i][2]
             field == get_field(filterset, filter_name)
         IN IF IsRaise(field) THEN field
            ELSE option_filters(filterset, i + 1,
                    DictSet(filters, Str(filter_name), option_info(field, lookups_)))

\* FilteringOptionsSchema.schema
FilteringOptionsSchema_schema(filterset) ==
    LET operators == DictOf(<<
            <<"and", DictOf(<< <<"type", Str("operator")>>, <<"label", Str("All of...")>> >>)>>,
            <<"or", DictOf(<< <<"type", Str("operator")>>, <<"label", Str("Any of...")>> >>)>>,
            <<"not", DictOf(<< <<"type", Str("operator")>>, <<"label", Str("None of...")>> >>)>>
            >>)
        filters == option_filters(filterset, 1, Dict([k \in {} |-> None]))
    IN IF IsRaise(filters) THEN filters
       ELSE DictOf(<< <<"operators", operators>>, <<"filters", filters>> >>)

\* the name of a field's definition, written with an underscore
field_definition_name_underscore(filter_name) == filter_name \o "_filter"

\* name = f"{filter_name}-filter"
field_definition_name(filter_name) == filter_name \o "-filter"

\* the definition JSONSchema.schema generates for one field
field_definition(filter_name, lookups_) ==
    DictOf(<<
        <<"type", Str("array")>>,
        <<"prefixItems", List(<<
            DictOf(<< <<"const", Str(filter_name)>> >>),
            DictOf(<<
                <<"type", Str("object")>>,
                <<"properties", DictOf(<<
                    <<"lookup", DictOf(<< <<"enum", lookups_>> >>)>>,
                    <<"value", DictOf(<< <<"type", Str("string")>> >>)>> >>)>> >>) >>)>> >>)

RECURSIVE schema_definitions(_, _, _, _)
\* the loop of JSONSchema.schema from the i-th valid filter on, and the
\* filters definition after it: the definitions dict in the end
schema_definitions(filterset, i, fields, definitions) ==
    IF i > Len(filterset.valid_filters)
    THEN DictSet(definitions, Str("filters"),
            DictOf(<< <<"anyOf",
                List([n \in 1..Len(fields) |-> Str("#/$defs/" \o fields[n])])>> >>))
    ELSE LET filter_name == filterset.valid_filters[i][1]
             lookups_ == filterset.valid_filters[i][2]
             name == field_definition_name(filter_name)
         IN schema_definitions(filterset, i + 1, Append(fields, name),
                DictSet(definitions, Str(name), field_definition(filter_name, lookups_)))

\* the schema document around the definitions
schema_document(filterset, definitions) ==
    DictOf(<<
        <<"$id", Str("https://example.com/exp.json")>>,
        <<"$schema", Str("https://json-schema.org/draft/2020-12/schema")>>,
        <<"title", Str(Title(filterset.model.model_name) \o " Schema")>>,
        <<"type", Str("object")>>,
        <<"properties", DictOf(<< <<"query", Ref("and-or-op")>> >>)>>,
        <<"$defs", definitions>> >>)

\* JSONSchema.schema writing into BASE_DEFINITIONS itself, not into a copy
JSONSchema_schema_no_copy(filterset, base) ==
    LET definitions == schema_definitions(filterset, 1, <<>>, base)
    IN [out |-> schema_document(filterset, definitions), BASE_DEFINITIONS |-> definitions]

\* JSONSchema.schema, base being the module's BASE_DEFINITIONS at the call:
\* the schema returned, and BASE_DEFINITIONS after the call. The definitions
\* are written into BASE_DEFINITIONS.copy(), a dict of its own, and nothing
\* is written below its top level.
JSONSchema_schema(filterset, base) ==
    LET definitions == schema_definitions(filterset, 1, <<>>, base)
    IN [out |-> schema_document(filterset, definitions), BASE_DEFINITIONS |-> base]

----------------------------------------------------------------------------
(* The inputs the operations are tried on *)

\* how many lookups are declared for a filter at most
MaxLookups == 2

LookupNames == {Str("exact"), List(<<Str("year"), Str("gte")>>)}
ChoiceLookupNames == {Str("exact")}
Labels == {None, Str("is")}
ChoiceArgs == {None, STATIC_CHOICES, Function("dynamic_choices")}
DefaultLookupArgs == {None, Str("exact"), Str("icontains")}
TransmuterArgs == {None, Function("query_in_stock")}
DefaultValueArgs == {None, Str("Kitchen")}
UnstickValueArgs == {None, Str(""), Str("Kitchen")}
FieldNames == {Str("category")}
Values == {None, Str(""), Str("Kitchen"), Str("Tools"), Bool(TRUE)}
LookupArgs == {NoKwargs, Kwargs(Str("exact")), Kwargs(Str("icontains"))}

\* field handles of the field catalog: one that enumerates choices, one that
\* carries help text and enumerates nothing, one object with no help_text at all
Fields ==
    { [name |-> Str("type"), help_text |-> Str(""),
       choices |-> List(<<Tuple(<<Str("manual"), Str("Manual")>>),
                          Tuple(<<Str("bulk"), Str("Bulk")>>)>>)],
      [name |-> Str("pages"), help_text |-> Str("Number of pages"), choices |-> None],
      [name |-> Str("brand"),
       choices |-> List(<<Tuple(<<Str("MOEN"), Str("MOEN")>>)>>)] }

----------------------------------------------------------------------------
(* The operations *)

NoCall == [op |-> "none"]

Init ==
    /\ lookups = <<>>
    /\ filter = None
    /\ result = NoCall
    /\ BASE_DEFINITIONS = BASE_DEFINITIONS_literal

\* lookup = InputLookup(name, label=label)
NewInputLookup(name, label) ==
    LET out == InputLookup_init(name, label)
    IN /\ filter = None
       /\ Len(lookups) < MaxLookups
       /\ lookups' = IF IsRaise(out) THEN lookups ELSE Append(lookups, out)
       /\ result' = [op |-> "InputLookup", name |-> name, label |-> label, out |-> out]
       /\ UNCHANGED <<filter, BASE_DEFINITIONS>>

\* lookup = ChoiceLookup(name, label=label, choices=choices)
NewChoiceLookup(name, label, choices) ==
    LET out == ChoiceLookup_init(name, label, choices)
    IN /\ filter = None
       /\ Len(lookups) < MaxLookups
       /\ lookups' = IF IsRaise(out) THEN lookups ELSE Append(lookups, out)
       /\ result' = [op |-> "ChoiceLookup", name |-> name, label |-> label,
                     choices |-> choices, out |-> out]
       /\ UNCHANGED <<filter, BASE_DEFINITIONS>>

\* lookups[i].get_options_schema_definition(field)
DescribeLookup(i, field) ==
    /\ i \in 1..Len(lookups)
    /\ result' = [op |-> "Lookup.get_options_schema_definition", self |-> lookups[i],
                  field |-> field, out |-> get_options_schema_definition(lookups[i], field)]
    /\ UNCHANGED <<lookups, filter, BASE_DEFINITIONS>>

\* filter = Filter(*lookups, default_lookup=..., label=..., transmuter=...)
NewFilter(default_lookup, label, transmuter) ==
    LET out == Filter_init(lookups, default_lookup, label, transmuter)
    IN /\ filter = None
       /\ filter' = IF IsRaise(out) THEN filter ELSE out
       /\ result' = [op |-> "Filter", lookups |-> lookups, default_lookup |-> default_lookup,
                     label |-> label, transmuter |-> transmuter, out |-> out]
       /\ UNCHANGED <<lookups, BASE_DEFINITIONS>>

\* filter = StickyFilter(*lookups, default_value=..., unstick_value=..., ...)
NewStickyFilter(default_lookup, label, transmuter, default_value, unstick_value) ==
    LET out == StickyFilter_init(lookups, default_lookup, label, transmuter,
                                 default_value, unstick_value)
    IN /\ filter = None
       /\ filter' = IF IsRaise(out) THEN filter ELSE out
       /\ result' = [op |-> "StickyFilter", lookups |-> lookups,
                     default_lookup |-> default_lookup, label |-> label,
                     transmuter |-> transmuter, default_value |-> default_value,
                     unstick_value |-> unstick_value, out |-> out]
       /\ UNCHANGED <<lookups, BASE_DEFINITIONS>>

\* the FilterSet's metaclass assigns the declared attribute name to the filter
Bind(name) ==
    /\ filter # None
    /\ filter.name = None
    /\ filter' = [filter EXCEPT !.name = name]
    /\ result' = [op |-> "bind", name |-> name]
    /\ UNCHANGED <<lookups, BASE_DEFINITIONS>>

\* filter.transmute(value, queryset, **kwargs)
Transmute(value, kwargs) ==
    /\ filter # None
    /\ result' = [op |-> "transmute", self |-> filter, value |-> value,
                  kwargs |-> kwargs, out |-> transmute(filter, value, kwargs)]
    /\ UNCHANGED <<lookups, filter, BASE_DEFINITIONS>>

\* filter.get_sticky_Q(queryset)
GetStickyQ ==
    /\ filter # None
    /\ filter.t = "StickyFilter"
    /\ result' = [op |-> "get_sticky_Q", self |-> filter, out |-> get_sticky_Q(filter)]
    /\ UNCHANGED <<lookups, filter, BASE_DEFINITIONS>>

\* filter.get_options_schema_info(field, queryset)
Describe(field) ==
    /\ filter # None
    /\ result' = [op |-> "get_options_schema_info", self |-> filter, field |-> field,
                  out |-> get_options_schema_info(filter, field)]
    /\ UNCHANGED <<lookups, filter, BASE_DEFINITIONS>>

Next ==
    \/ \E name \in LookupNames, label \in Labels : NewInputLookup(name, label)
    \/ \E name \in ChoiceLookupNames, label \in Labels, choices \in ChoiceArgs :
            NewChoiceLookup(name, label, choices)
    \/ \E i \in 1..MaxLookups, field \in Fields : DescribeLookup(i, field)
    \/ \E default_lookup \in DefaultLookupArgs, label \in Labels,
          transmuter \in TransmuterArgs :
            NewFilter(default_lookup, label, transmuter)
    \/ \E default_lookup \in DefaultLookupArgs, label \in Labels,
          transmuter \in TransmuterArgs, default_value \in DefaultValueArgs,
          unstick_value \in UnstickValueArgs :
            NewStickyFilter(default_lookup, label, transmuter, default_value, unstick_value)
    \/ \E name \in FieldNames : Bind(name)
    \/ \E value \in Values, kwargs \in LookupArgs : Transmute(value, kwargs)
    \/ GetStickyQ
    \/ \E field \in Fields : Describe(field)

Spec == Init /\ [][Next]_vars

----------------------------------------------------------------------------
(* The field-lookup helpers of utils.py on their own *)

\* how many names a lookup given as a list or tuple holds at most
MaxParts == 2

\* names as they are, and as they should not be: empty, ending in an
\* underscore, holding the separator
NameStrings == {"", "year", "gte", "_a", "a_", "a__b"}
UtilFieldNames == {Str(n) : n \in NameStrings \ {""}}
UtilValues == {Str("18"), None}

RECURSIVE NameSeqs(_)
\* the sequences of at most n names
NameSeqs(n) ==
    IF n = 0 THEN {<<>>}
    ELSE LET shorter == NameSeqs(n - 1)
         IN shorter \cup {Append(q, Str(x)) : q \in shorter, x \in NameStrings}

UtilLookups ==
    {None} \cup {Str(n) : n \in NameStrings}
           \cup {List(q) : q \in NameSeqs(MaxParts)}
           \cup {Tuple(q) : q \in NameSeqs(MaxParts)}

\* the arguments of a call about to be made
UtilsInit ==
    /\ lookups = <<>>
    /\ filter = None
    /\ BASE_DEFINITIONS = BASE_DEFINITIONS_literal
    /\ result \in {[op |-> "arguments", field_name |-> f, value |-> v, lookup |-> l] :
                        f \in UtilFieldNames, v \in UtilValues, l \in UtilLookups}

\* arg = construct_field_lookup_arg(field_name, value, lookup)
Construct ==
    /\ result.op = "arguments"
    /\ result' = [op |-> "construct_field_lookup_arg", field_name |-> result.field_name,
                  value |-> result.value, lookup |-> result.lookup,
                  out |-> construct_field_lookup_arg(result.field_name, result.value,
                                                     result.lookup)]
    /\ UNCHANGED <<lookups, filter, BASE_DEFINITIONS>>

\* deconstruct_field_lookup_arg(*arg), arg being what was just constructed
Deconstruct ==
    /\ result.op = "construct_field_lookup_arg"
    /\ result' = [op |-> "deconstruct_field_lookup_arg", field_name |-> result.field_name,
                  value |-> result.value, lookup |-> result.lookup, arg |-> result.out,
                  out |-> deconstruct_field_lookup_arg(result.out.l[1], result.out.l[2], None)]
    /\ UNCHANGED <<lookups, filter, BASE_DEFINITIONS>>

UtilsNext == Construct \/ Deconstruct

UtilsSpec == UtilsInit /\ [][UtilsNext]_vars

----------------------------------------------------------------------------
(* Declared filters and filter sets in use: requests and schema generation *)

\* the filters that are declared: name of tests/lab_app/filters.py, is_in_stock
\* of tests/market_app/filters.py, status of the StickyFilter documentation
DeclaredFilters ==
    { Filter_init(<<InputLookup_init(Str("icontains"), Str("contains"))>>,
                  Str("icontains"), Str("Name"), None),
      Filter_init(<<ChoiceLookup_init(Str("exact"), Str(":"),
                        List(<<Tuple(<<Bool(TRUE), Str("Yes")>>),
                               Tuple(<<Bool(FALSE), Str("No")>>)>>))>>,
                  None, Str("Is in stock?"), Function("query_in_stock")),
      StickyFilter_init(<<ChoiceLookup_init(Str("exact"), Str("is"), STATIC_CHOICES)>>,
                        None, Str("Status"), None, Str("Kitchen"), Str("")) }

\* the model of the filter sets: its name and its fields by name
Participant ==
    [model_name |-> "participant",
     fields |-> [n \in {"age", "sex", "date_of_birth"} |->
        CASE n = "age" -> [t |-> "Field", name |-> Str(n), verbose_name |-> Str("age"),
                           help_text |-> Str(""), choices |-> None]
          [] n = "sex" -> [t |-> "Field", name |-> Str(n), verbose_name |-> Str("sex"),
                           help_text |-> Str("Sex at birth"), choices |-> None]
          [] OTHER -> [t |-> "Field", name |-> Str(n), verbose_name |-> Str("date of birth"),
                       help_text |-> Str(""), choices |-> None]]]

\* valid_filters of the filter sets: field name and its lookups, in order
ValidFilters ==
    { <<>>,
      << <<"age", PySet({Str("gte"), Str("lte")})>> >>,
      << <<"age", PySet({Str("gte"), Str("lte")})>>, <<"sex", PySet({Str("exact")})>> >>,
      << <<"sex", PySet({Str("exact")})>>, <<"date_of_birth", PySet({Str("gte")})>> >> }

FilterSets == {[model |-> Participant, valid_filters |-> vf] : vf \in ValidFilters}

SchemaInit ==
    /\ filter \in DeclaredFilters
    /\ lookups = filter.lookups
    /\ result = NoCall
    /\ BASE_DEFINITIONS = BASE_DEFINITIONS_literal

\* JSONSchema(filterset).schema
GenerateSchema(filterset) ==
    LET call == JSONSchema_schema(filterset, BASE_DEFINITIONS)
    IN /\ result' = [op |-> "JSONSchema.schema", filterset |-> filterset, out |-> call.out]
       /\ BASE_DEFINITIONS' = call.BASE_DEFINITIONS
       /\ UNCHANGED <<lookups, filter>>

\* FilteringOptionsSchema(filterset).schema
GenerateOptions(filterset) ==
    /\ result' = [op |-> "FilteringOptionsSchema.schema", filterset |-> filterset,
                  out |-> FilteringOptionsSchema_schema(filterset)]
    /\ UNCHANGED <<lookups, filter, BASE_DEFINITIONS>>

SchemaNext ==
    \/ \E name \in FieldNames : Bind(name)
    \/ \E value \in Values, kwargs \in LookupArgs : Transmute(value, kwargs)
    \/ GetStickyQ
    \/ \E field \in Fields : Describe(field)
    \/ \E i \in 1..MaxLookups, field \in Fields : DescribeLookup(i, field)
    \/ \E filterset \in FilterSets : GenerateSchema(filterset)
    \/ \E filterset \in FilterSets : GenerateOptions(filterset)

SchemaSpec == SchemaInit /\ [][SchemaNext]_vars

----------------------------------------------------------------------------
(* Properties *)

IsTransmute == result.op = "transmute"
IsSticky(f) == f.t = "StickyFilter"
IsFilterInit == result.op \in {"Filter", "StickyFilter"}
IsLookupInit == result.op \in {"InputLookup", "ChoiceLookup"}

\* the lookup a transmute call works with: the one supplied, else the default
EffectiveLookup(f, kwargs) ==
    IF "lookup" \in DOMAIN kwargs THEN kwargs["lookup"] ELSE f.default_lookup

\* the predicate (field name qualified by the lookup, value)
FieldPredicate(f, value, lookup) ==
    [t |-> "Q", children |-> <<Tuple(<<Str(construct_field_lookup_name(f.name, lookup)), value>>)>>]

\* a sticky filter with a solvent value configured that differs from its sticky value
HasSolvent(f) ==
    /\ IsSticky(f)
    /\ f.unstick_value # None
    /\ ~PyEq(f.default_value, f.unstick_value)

\* C1: sticky/solvent law. For a sticky filter with sticky value S and a
\* configured solvent value V, S != V: transmute(S) returns the predicate
\* get_sticky_Q returns, which is the one built from S with the default lookup;
\* transmute(V) returns None; transmute of any other value v returns the
\* predicate (field name qualified by the effective lookup, v).
C1_StickySolventLaw ==
    /\ (IsTransmute /\ HasSolvent(result.self)) =>
        LET f == result.self
            v == result.value
        IN /\ (v = f.default_value /\ result.kwargs = NoKwargs) =>
                /\ result.out = FieldPredicate(f, f.default_value, f.default_lookup)
                /\ result.out = get_sticky_Q(f)
           /\ PyEq(v, f.unstick_value) => result.out = None
           /\ ~PyEq(v, f.unstick_value) =>
                result.out = FieldPredicate(f, v, EffectiveLookup(f, result.kwargs))
    /\ (result.op = "get_sticky_Q" /\ HasSolvent(result.self)) =>
        result.out = FieldPredicate(result.self, result.self.default_value,
                                    result.self.default_lookup)

\* a bound sticky filter has been given its solvent value and contributed nothing
C1_Witness ==
    /\ IsTransmute
    /\ HasSolvent(result.self)
    /\ result.self.name = Str("category")
    /\ result.value = result.self.unstick_value
    /\ result.out = None

\* C2: default-lookup substitution. A transmute call made without a lookup
\* returns what the same call returns with lookup=default_lookup, for plain and
\* sticky filters alike.
C2_DefaultLookupSubstitution ==
    (IsTransmute /\ result.kwargs = NoKwargs) =>
        result.out = transmute(result.self, result.value,
                               Kwargs(result.self.default_lookup))

\* a sticky filter transmuted a value, without a lookup, into a predicate
C2_Witness ==
    /\ IsTransmute
    /\ result.kwargs = NoKwargs
    /\ IsSticky(result.self)
    /\ result.value = Str("Tools")
    /\ result.out.t = "Q"

HasCustomTransmuter(f) == f._transmuter # Function("_default_transmuter")

\* C3: transmuter delegation. A filter configured with a custom transmuter,
\* sticky or not, returns for a value that is not its solvent value what the
\* custom transmuter returns for the cleaned value and the effective lookup; the
\* built-in field-lookup-value predicate comes only from a filter with no custom
\* transmuter.
C3_TransmuterDelegation ==
    (IsTransmute /\ HasCustomTransmuter(result.self)) =>
        LET f == result.self
            solvent == IsSticky(f) /\ PyEq(result.value, f.unstick_value)
        IN ~solvent =>
            /\ result.out = query_in_stock(clean(f, result.value),
                                Kwargs(EffectiveLookup(f, result.kwargs)))
            /\ result.out # FieldPredicate(f, result.value,
                                EffectiveLookup(f, result.kwargs))

\* C4: a filter constructed without a solvent value never transmutes to None:
\* every value, None and the empty string included, yields a predicate.
C4_NoSolventNeverAbsent ==
    (IsTransmute /\ (~IsSticky(result.self) \/ result.self.unstick_value = None)) =>
        result.out.t = "Q"

\* C5: construction rejects incomplete definitions. A Filter given no lookups
\* or no label, and a Lookup given no label, raise ValueError and leave no
\* object; so every lookup and filter there is has a label, and every filter at
\* least one lookup.
C5_ConstructionRejectsIncomplete ==
    /\ (IsFilterInit /\ (Len(result.lookups) = 0 \/ result.label = None)) =>
            /\ IsRaise(result.out) /\ result.out.exc = "ValueError"
            /\ filter = None
    /\ (IsLookupInit /\ result.label = None) =>
            /\ IsRaise(result.out) /\ result.out.exc = "ValueError"
    /\ \A i \in 1..Len(lookups) : lookups[i].label # None
    /\ filter # None =>
            /\ Len(filter.lookups) > 0
            /\ filter.label # None
            /\ \A i \in 1..Len(filter.lookups) : filter.lookups[i].label # None

\* a Filter was asked for with no lookups at all and the call raised
C5_Witness ==
    /\ result.op = "Filter"
    /\ Len(result.lookups) = 0
    /\ result.label # None
    /\ IsRaise(result.out)
    /\ filter = None

\* a constructor call that names lookups and a label but no default_lookup
\* (and, for a sticky filter, the default value it requires)
OmitsDefaultLookup ==
    /\ IsFilterInit
    /\ Len(result.lookups) >= 1
    /\ result.label # None
    /\ result.default_lookup = None
    /\ result.op = "StickyFilter" => result.default_value # None

DEFAULT_LOOKUP_REQUIRED ==
    Raise("ValueError", "At this time, the default_lookup must be provided.")

C8_DefaultLookupIsOwnLookup ==
    filter # None =>
        \E i \in 1..Len(filter.lookups) : filter.lookups[i].name = filter.default_lookup

IsDescribeLookup == result.op = "Lookup.get_options_schema_definition"

\* C9: choice resolution order. The description of a Choice lookup holds the
\* static list when one was given; else what the resolver returns, called with
\* this lookup and the field passed in; and only when neither was given the
\* field's own choices, with no blank entry. It also holds type "choice" and the
\* lookup's label.
C9_ChoiceResolutionOrder ==
    (IsDescribeLookup /\ result.self.t = "ChoiceLookup") =>
        LET lu == result.self
            field == result.field
            out == result.out
        IN /\ lu._choices.t = "list" =>
                /\ ~IsRaise(out)
                /\ out.d[Str("choices")] = lu._choices
           /\ lu._choices.t = "function" =>
                /\ ~IsRaise(out)
                /\ out.d[Str("choices")] =
                     List(<<Tuple(<<Str("any"), Str("Any")>>),
                            Tuple(<<Str("ChoiceLookup"), field.name>>)>>)
           /\ (lu._choices = None /\ field.choices # None) =>
                /\ ~IsRaise(out)
                /\ out.d[Str("choices")] = field.choices
                /\ \A i \in 1..Len(out.d[Str("choices")].l) :
                        out.d[Str("choices")].l[i] # BLANK_CHOICE
           /\ ~IsRaise(out) =>
                /\ DOMAIN out.d = {Str("type"), Str("label"), Str("choices")}
                /\ out.d[Str("type")] = Str("choice")
                /\ out.d[Str("label")] = lu.label

\* a lookup with a static list was described for a field that has choices of
\* its own, and the static list won
C9_Witness ==
    /\ IsDescribeLookup
    /\ result.self.t = "ChoiceLookup"
    /\ result.self._choices = STATIC_CHOICES
    /\ result.field.choices # None
    /\ result.out.t = "dict"
    /\ result.out.d[Str("choices")] = STATIC_CHOICES

\* C10: the description of a Filter for a field is {default_lookup, label,
\* lookups}, lookups holding exactly one entry per lookup the filter was
\* constructed with, under the lookup's name, valued by the lookup's own
\* description; and help_text is there exactly when the field has help text.
\* (Stated for the calls in which each lookup's own description resolves.)
C10_FilterDescription ==
    (/\ result.op = "get_options_schema_info"
     /\ result.self.t = "Filter"
     /\ \A i \in 1..Len(result.self.lookups) :
            ~IsRaise(get_options_schema_definition(result.self.lookups[i], result.field)))
    =>
        LET f == result.self
            field == result.field
            out == result.out
            has_help == "help_text" \in DOMAIN field /\ field.help_text # Str("")
        IN /\ out.t = "dict"
           /\ DOMAIN out.d = {Str("default_lookup"), Str("label"), Str("lookups")}
                    \cup (IF has_help THEN {Str("help_text")} ELSE {})
           /\ out.d[Str("default_lookup")] = f.default_lookup
           /\ out.d[Str("label")] = f.label
           /\ DOMAIN out.d[Str("lookups")].d = {f.lookups[i].name : i \in 1..Len(f.lookups)}
           /\ Cardinality(DOMAIN out.d[Str("lookups")].d) = Len(f.lookups)
           /\ \A i \in 1..Len(f.lookups) :
                out.d[Str("lookups")].d[f.lookups[i].name] =
                    get_options_schema_definition(f.lookups[i], field)

\* C16: get_sticky_Q of every sticky filter construction accepts, whatever its
\* solvent value (none, or one equal to the default value), is a predicate and
\* never None: the field-lookup-value predicate of the filter's name, its
\* default_lookup and its default value; and the options info of the filter
\* carries is_sticky = True and, as sticky_default, the serialization of that
\* predicate.
C16_StickyQIsPredicate ==
    /\ result.op = "get_sticky_Q" =>
        result.out = FieldPredicate(result.self, result.self.default_value,
                                    result.self.default_lookup)
    /\ (/\ result.op = "get_options_schema_info"
        /\ IsSticky(result.self)
        /\ ~IsRaise(Filter_get_options_schema_info(result.self, result.field))) =>
            /\ result.out.t = "dict"
            /\ result.out.d[Str("is_sticky")] = Bool(TRUE)
            /\ result.out.d[Str("sticky_default")].t = "list"

IsSeq(v) == v.t \in {"list", "tuple"}

\* the parts joined by "__", one after the other
RECURSIVE Chain(_)
Chain(parts) ==
    IF Len(parts) = 1 THEN parts[1].s
    ELSE Chain(SubSeq(parts, 1, Len(parts) - 1)) \o "__" \o parts[Len(parts)].s

\* what construct_field_lookup_arg(f, v, l) is to return
ConstructsAsStated ==
    result.op = "construct_field_lookup_arg" =>
        LET f == result.field_name
            l == result.lookup
        IN /\ result.out.t = "tuple"
           /\ Len(result.out.l) = 2
           /\ result.out.l[2] = result.value
           /\ l = None => result.out.l[1] = f
           /\ l.t = "str" => result.out.l[1] = Str(f.s \o "__" \o l.s)
           /\ IsSeq(l) => result.out.l[1] = Str(Chain(<<f>> \o l.l))

\* the query data [f, {value: v, lookup: l}]
QueryData(f, v, l) ==
    List(<<f, Dict([k \in {Str("value"), Str("lookup")} |->
                        IF k = Str("value") THEN v ELSE l])>>)

\* a lookup after the two normalisations: absent becomes "exact", a sequence
\* of one name that name (a longer or empty sequence is compared as a list)
Normalised(l) ==
    IF l = None THEN Str("exact")
    ELSE IF IsSeq(l) THEN (IF Len(l.l) = 1 THEN l.l[1] ELSE List(l.l))
    ELSE l

\* a name that survives the trip: not empty, no "__" in it, no "_" at its end
Plain(n) ==
    /\ n.t = "str"
    /\ Len(n.s) > 0
    /\ SubSeq(n.s, Len(n.s), Len(n.s)) # "_"
    /\ \A i \in 1..(Len(n.s) - 1) : SubSeq(n.s, i, i + 1) # "__"

\* C17 as stated: construct_field_lookup_arg returns (f, v), (f__l, v) or
\* (f joined with the names of l, v); and deconstructing what was constructed
\* returns [f, {value: v, lookup: l}] for every f, v and l, an absent l coming
\* back as "exact" and a one-name sequence as that name.  (Stated for the names
\* Django allows only, and the empty string and empty sequence the claim lists.)
C17_RoundTrip ==
    /\ ConstructsAsStated
    /\ (/\ result.op = "deconstruct_field_lookup_arg"
        /\ Plain(result.field_name)
        /\ \/ result.lookup \in {None, Str("")}
           \/ Plain(result.lookup)
           \/ IsSeq(result.lookup) /\ \A i \in 1..Len(result.lookup.l) :
                                            Plain(result.lookup.l[i])) =>
        result.out = QueryData(result.field_name, result.value, Normalised(result.lookup))

\* C17 as amended: construct_field_lookup_arg returns what the claim says; the
\* round trip returns [f, {value: v, lookup: l}] when f and every name of l are
\* non-empty, hold no "__" and do not end in "_", an absent l and an empty
\* sequence coming back as "exact", a one-name sequence as that name and a
\* longer tuple as a list; and an empty-string l comes back with no lookup
\* key at all.
C17_RoundTripOfPlainNames ==
    /\ ConstructsAsStated
    /\ (result.op = "deconstruct_field_lookup_arg" /\ Plain(result.field_name)) =>
        LET f == result.field_name
            v == result.value
            l == result.lookup
        IN /\ (l = None \/ (IsSeq(l) /\ Len(l.l) = 0)) =>
                result.out = QueryData(f, v, Str("exact"))
           /\ (l.t = "str" /\ Plain(l)) => result.out = QueryData(f, v, l)
           /\ (IsSeq(l) /\ Len(l.l) >= 1 /\ \A i \in 1..Len(l.l) : Plain(l.l[i])) =>
                result.out = QueryData(f, v, Normalised(l))
           /\ l = Str("") =>
                result.out = List(<<f, Dict([k \in {Str("value")} |-> v])>>)

\* a two-name lookup went out as year__gte behind the field name and came back
C17_Witness ==
    /\ result.op = "deconstruct_field_lookup_arg"
    /\ result.field_name = Str("_a")
    /\ result.lookup = List(<<Str("year"), Str("gte")>>)
    /\ result.arg = Tuple(<<Str("_a__year__gte"), Str("18")>>)
    /\ result.out = QueryData(Str("_a"), Str("18"), List(<<Str("year"), Str("gte")>>))

IsSchema == result.op = "JSONSchema.schema"
Defs == result.out.d[Str("$defs")].d
ValidFiltersOf(r) == r.filterset.valid_filters

\* C11: $defs of the structural schema has exactly the keys and-or-op, not-op,
\* filters and one "<field>-filter" per valid field; each "<field>-filter" is
\* the 2-tuple of the constant field name and an object whose lookup is one of
\* exactly the field's valid lookups and whose value is a string; and filters
\* lists exactly one "#/$defs/<field>-filter" per valid field, each a key of
\* $defs.
C11_SchemaDefinitions ==
    IsSchema =>
        LET vf == ValidFiltersOf(result)
            anyOf == Defs[Str("filters")].d[Str("anyOf")].l
        IN /\ DOMAIN Defs = {Str("and-or-op"), Str("not-op"), Str("filters")}
                    \cup {Str(vf[i][1] \o "-filter") : i \in 1..Len(vf)}
           /\ Cardinality(DOMAIN Defs) = 3 + Len(vf)
           /\ \A i \in 1..Len(vf) :
                LET def == Defs[Str(vf[i][1] \o "-filter")].d
                    items == def[Str("prefixItems")].l
                IN /\ def[Str("type")] = Str("array")
                   /\ Len(items) = 2
                   /\ items[1] = Dict([k \in {Str("const")} |-> Str(vf[i][1])])
                   /\ items[2].d[Str("type")] = Str("object")
                   /\ DOMAIN items[2].d[Str("properties")].d = {Str("lookup"), Str("value")}
                   /\ items[2].d[Str("properties")].d[Str("lookup")] =
                        Dict([k \in {Str("enum")} |-> vf[i][2]])
                   /\ items[2].d[Str("properties")].d[Str("value")] =
                        Dict([k \in {Str("type")} |-> Str("string")])
           /\ DOMAIN Defs[Str("filters")].d = {Str("anyOf")}
           /\ Len(anyOf) = Len(vf)
           /\ \A i \in 1..Len(vf) :
                /\ anyOf[i] = Str("#/$defs/" \o vf[i][1] \o "-filter")
                /\ \E k \in DOMAIN Defs : anyOf[i].s = "#/$defs/" \o k.s

\* the schema of a filter set of two fields holds the definitions of both
C11_Witness ==
    /\ IsSchema
    /\ Len(ValidFiltersOf(result)) = 2
    /\ Str("age-filter") \in DOMAIN Defs
    /\ Str("sex-filter") \in DOMAIN Defs
    /\ Len(Defs[Str("filters")].d[Str("anyOf")].l) = 2

RECURSIVE SubschemasOk(_)
\* every anyOf and oneOf at or below v is a non-empty list of objects or booleans
SubschemasOk(v) ==
    CASE v.t = "dict" ->
            \A k \in DOMAIN v.d :
                /\ k \in {Str("anyOf"), Str("oneOf")} =>
                    /\ v.d[k].t = "list"
                    /\ Len(v.d[k].l) > 0
                    /\ \A i \in 1..Len(v.d[k].l) : v.d[k].l[i].t \in {"dict", "bool"}
                /\ SubschemasOk(v.d[k])
      [] v.t \in {"list", "tuple"} -> \A i \in 1..Len(v.l) : SubschemasOk(v.l[i])
      [] OTHER -> TRUE

\* C12: the structural schema generated for any filter set, one with no valid
\* filters included, is a valid JSON Schema document: every member of every
\* anyOf and oneOf, those of the generated filters definition too, is an object
\* or a boolean, and no anyOf or oneOf is empty.
C12_SchemaIsValidSchema ==
    IsSchema => SubschemasOk(result.out)

\* C13: the root of the structural schema requires query: properties.query
\* refers to and-or-op, and query is listed under required.
C13_QueryIsRequired ==
    IsSchema =>
        /\ result.out.d[Str("properties")].d[Str("query")] =
                Dict([k \in {Str("$ref")} |-> Str("#/$defs/and-or-op")])
        /\ Str("required") \in DOMAIN result.out.d
        /\ \E i \in 1..Len(result.out.d[Str("required")].l) :
                result.out.d[Str("required")].l[i] = Str("query")

IsOptions == result.op = "FilteringOptionsSchema.schema"

\* C14: the options descriptor is {operators, filters}; operators has exactly
\* the keys and, or, not, each of type "operator" with a label; filters has
\* exactly one entry per field of valid_filters, of type "field", with a
\* field_type, the field's valid lookups as lookups, a label, and a description
\* exactly when the field of the model has help text.
C14_OptionsDescriptor ==
    IsOptions =>
        LET vf == ValidFiltersOf(result)
            out == result.out
            operators == out.d[Str("operators")].d
            filters == out.d[Str("filters")].d
        IN /\ out.t = "dict"
           /\ DOMAIN out.d = {Str("operators"), Str("filters")}
           /\ DOMAIN operators = {Str("and"), Str("or"), Str("not")}
           /\ \A k \in DOMAIN operators :
                /\ DOMAIN operators[k].d = {Str("type"), Str("label")}
                /\ operators[k].d[Str("type")] = Str("operator")
                /\ operators[k].d[Str("label")].t = "str"
           /\ DOMAIN filters = {Str(vf[i][1]) : i \in 1..Len(vf)}
           /\ Cardinality(DOMAIN filters) = Len(vf)
           /\ \A i \in 1..Len(vf) :
                LET info == filters[Str(vf[i][1])].d
                    field == result.filterset.model.fields[vf[i][1]]
                IN /\ {Str("type"), Str("field_type"), Str("lookups"), Str("label")}
                        \subseteq DOMAIN info
                   /\ DOMAIN info \subseteq {Str("type"), Str("field_type"), Str("lookups"),
                                            Str("label"), Str("description")}
                   /\ info[Str("type")] = Str("field")
                   /\ info[Str("lookups")] = vf[i][2]
                   /\ info[Str("label")].t = "str"
                   /\ (Str("description") \in DOMAIN info) <=> (field.help_text # Str(""))
                   /\ (Str("description") \in DOMAIN info) =>
                        info[Str("description")] = field.help_text

\* options of a filter set of a field with help text and a field with none
C14_Witness ==
    /\ IsOptions
    /\ result.out.t = "dict"
    /\ DOMAIN result.out.d[Str("filters")].d = {Str("age"), Str("sex")}
    /\ Str("description") \in DOMAIN result.out.d[Str("filters")].d[Str("sex")].d
    /\ Str("description") \notin DOMAIN result.out.d[Str("filters")].d[Str("age")].d
    /\ result.out.d[Str("filters")].d[Str("age")].d[Str("label")] = Str("Age")

\* the calls that use the definitions: transmute, describe, generate
UseOps ==
    {"transmute", "get_sticky_Q", "get_options_schema_info",
     "Lookup.get_options_schema_definition", "JSONSchema.schema",
     "FilteringOptionsSchema.schema"}

\* C15: the definitions are never mutated by use. Whatever transmute, describe
\* and schema generation calls are made, in whatever order, each leaves the
\* filter (name, lookups, default_lookup, label, sticky and solvent values),
\* its lookups (name, label, choices) and BASE_DEFINITIONS as they were; so a
\* schema holds no field definition of a filter set generated before it, and a
\* transmute call repeated with the same arguments returns an equal result.
C15_UseLeavesDefinitions ==
    [][ result'.op \in UseOps =>
            /\ filter' = filter
            /\ lookups' = lookups
            /\ BASE_DEFINITIONS' = BASE_DEFINITIONS
            /\ BASE_DEFINITIONS' = BASE_DEFINITIONS_literal
            /\ result'.op = "JSONSchema.schema" =>
                DOMAIN result'.out.d[Str("$defs")].d =
                    {Str("and-or-op"), Str("not-op"), Str("filters")}
                    \cup {Str(result'.filterset.valid_filters[i][1] \o "-filter") :
                            i \in 1..Len(result'.filterset.valid_filters)}
            /\ (/\ result.op = "transmute" /\ result'.op = "transmute"
                /\ result'.value = result.value /\ result'.kwargs = result.kwargs) =>
                    result'.out = result.out
      ]_vars

\* a schema was generated for a filter set with fields, and BASE_DEFINITIONS
\* still holds its two definitions only
C15_Witness ==
    /\ IsSchema
    /\ Len(ValidFiltersOf(result)) = 2
    /\ filter.name # None
    /\ DOMAIN BASE_DEFINITIONS.d = {Str("and-or-op"), Str("not-op")}
    /\ Str("date_of_birth-filter") \in DOMAIN Defs

====
